---- MODULE Spec2Model ----
(***************************************************************************)
(* Model of the price-lookup module src/tests/stock_tool.py:               *)
(* code normalizer, TTL cache of bulk snapshots, primary and backup        *)
(* resolvers, the dispatcher get_stock_price and the polling loop.         *)
(*                                                                         *)
(* Time is counted in ticks of half a second (the finest delay the code    *)
(* sleeps), starting Monday 00:00:00 local time.                           *)
(***************************************************************************)
EXTENDS Integers, Sequences, FiniteSets, TLC

(* ---------------------------------------------------------------------- *)
(* Bounds of the model                                                     *)
(* ---------------------------------------------------------------------- *)
\* number of polling cycles the model follows
MaxCycles == 2
\* a slow bulk snapshot download, in seconds: just under the TTL, so that
\* an entry stored before the download is still in the cache, expired, by
\* the time the loop comes back to its market
MaxFetchSecs == 118
\* number of bulk downloads the model follows
MaxFetches == 4
\* number of threads of the concurrent cache scenario
NumThreads == 2
\* number of rows of the frame given to backtest
MaxDays == 4

(* ---------------------------------------------------------------------- *)
(* Constants of the program                                                *)
(* ---------------------------------------------------------------------- *)
TicksPerSec == 2
\* stock_cache = TTLCache(maxsize=256, ttl=CACHE_TTL), CACHE_TTL = 120 then
CACHE_TTL == 120
CACHE_MAXSIZE == 256
\* one attempt too many
RETRIES_Three == 2 + 1
\* for retry in range(2)
RETRIES == 2
\* the cycle length of the polling loop, in seconds
CYCLE_SECS == 180

\* stock_macd.py: the cash the backtest starts with, in yuan
initial_capital == 1000000
\* transaction_cost = 0.001, in thousandths
transaction_cost == 1
\* amounts of money are counted in thousandths of a yuan
Thousand == 1000

\* Python's None, as a result of a resolver
None == [kind |-> "none"]

A_SHANGHAI == "sh"
A_SHENZHEN == "sz"
US == "us"
HK == "hk"
MarketType == {A_SHANGHAI, A_SHENZHEN, US, HK}

\* a code is a sequence of one-character strings
STOCK_PREFIX_MAP ==
  << << <<"6">>, A_SHANGHAI >>,
     << <<"5">>, A_SHANGHAI >>,
     << <<"0">>, A_SHENZHEN >>,
     << <<"3">>, A_SHENZHEN >>,
     << <<"9">>, A_SHANGHAI >>,
     << <<"0","0","7","0","0">>, HK >>,
     << <<"A","A","P","L">>, US >> >>

test_cases ==
  << <<"0","0","2","2","6","1">>,
     <<"0","0","0","9","7","7">>,
     <<"6","0","0","1","3","3">>,
     <<"6","0","0","5","8","8">>,
     <<"0","0","2","7","4","7">>,
     <<"6","0","1","0","1","2">> >>

(* ---------------------------------------------------------------------- *)
(* Strings                                                                 *)
(* ---------------------------------------------------------------------- *)
LowerChars == <<"a","b","c","d","e","f","g","h","i","j","k","l","m",
                "n","o","p","q","r","s","t","u","v","w","x","y","z">>
UpperChars == <<"A","B","C","D","E","F","G","H","I","J","K","L","M",
                "N","O","P","Q","R","S","T","U","V","W","X","Y","Z">>

UpperChar(c) ==
  IF \E i \in 1..Len(LowerChars) : LowerChars[i] = c
  THEN UpperChars[CHOOSE i \in 1..Len(LowerChars) : LowerChars[i] = c]
  ELSE c

\* an upper() that leaves the string as it is
Upper_Identity(s) == s

\* str.upper()
Upper(s) == [i \in 1..Len(s) |-> UpperChar(s[i])]

\* str.lstrip(chars): drop the leading characters that belong to chars
RECURSIVE LStrip(_, _)
LStrip(s, chars) ==
  IF s /= <<>> /\ Head(s) \in chars THEN LStrip(Tail(s), chars) ELSE s

\* str.startswith(prefix)
StartsWith(s, p) == Len(p) <= Len(s) /\ SubSeq(s, 1, Len(p)) = p

\* needle in haystack
Contains(s, p) ==
  \E i \in 0..(Len(s) - Len(p)) : SubSeq(s, i + 1, i + Len(p)) = p

\* Series.str.contains(pat, case=False) for one element s: pat is searched
\* as a regular expression (regex=True is the default), letters match in
\* either case and "." matches any character
StrContains(s, pat) ==
  \E i \in 0..(Len(s) - Len(pat)) :
    \A j \in 1..Len(pat) :
      pat[j] = "." \/ UpperChar(pat[j]) = UpperChar(s[i + j])

(* ---------------------------------------------------------------------- *)
(* Code normalizer                                                         *)
(* ---------------------------------------------------------------------- *)
\* STOCK_PREFIX_MAP.get(prefix, default) for a one-character prefix
PrefixGet(c, default) ==
  IF \E i \in 1..Len(STOCK_PREFIX_MAP) : STOCK_PREFIX_MAP[i][1] = <<c>>
  THEN STOCK_PREFIX_MAP[CHOOSE i \in 1..Len(STOCK_PREFIX_MAP) :
                          STOCK_PREFIX_MAP[i][1] = <<c>>][2]
  ELSE default

\* first table entry, in the table's order, whose prefix starts the code
FirstPrefix(code) ==
  LET hits == {i \in 1..Len(STOCK_PREFIX_MAP) :
                 StartsWith(code, STOCK_PREFIX_MAP[i][1])}
  IN  IF hits = {} THEN 0
      ELSE CHOOSE i \in hits : \A j \in hits : i <= j

\* a normalizer that drops the first character of a code it recognizes
format_stock_code_Chop(stock_code) ==
  LET code == LStrip(Upper(stock_code), {".", "S", "H", "Z"})
      i == FirstPrefix(code)
  IN  IF i /= 0 THEN <<Tail(code), STOCK_PREFIX_MAP[i][2]>>
      ELSE IF Len(code) = 6
           THEN <<code, PrefixGet(code[1], A_SHANGHAI)>>
           ELSE <<code, A_SHANGHAI>>

format_stock_code(stock_code) ==
  LET code == LStrip(Upper(stock_code), {".", "S", "H", "Z"})
      i == FirstPrefix(code)
  IN  IF i /= 0 THEN <<code, STOCK_PREFIX_MAP[i][2]>>
      ELSE IF Len(code) = 6
           THEN <<code, PrefixGet(code[1], A_SHANGHAI)>>
           ELSE <<code, A_SHANGHAI>>

(* ---------------------------------------------------------------------- *)
(* Wall clock and trading hours                                            *)
(* ---------------------------------------------------------------------- *)
Secs(t) == t \div TicksPerSec
tm_wday(t) == (Secs(t) \div 86400) % 7
tm_hour(t) == (Secs(t) % 86400) \div 3600
tm_min(t) == (Secs(t) % 3600) \div 60
tm_sec(t) == Secs(t) % 60

\* comparison of (hour, minute) tuples
TupleLess(a, b) == a[1] < b[1] \/ (a[1] = b[1] /\ a[2] < b[2])

\* a table whose afternoon opening is half an hour late
TRADING_HOURS_LateAfternoon ==
  [morning_open |-> <<9, 30>>, morning_close |-> <<11, 30>>,
   afternoon_open |-> <<13, 30>>, afternoon_close |-> <<15, 0>>]

TRADING_HOURS ==
  [morning_open |-> <<9, 30>>, morning_close |-> <<11, 30>>,
   afternoon_open |-> <<13, 0>>, afternoon_close |-> <<15, 0>>]

is_trading_time(t) ==
  LET h == tm_hour(t)
      m == tm_min(t)
  IN  IF tm_wday(t) >= 5 THEN FALSE
      ELSE IF (h = 9 /\ m >= 30) \/ (10 <= h /\ h < 11) \/ (h = 11 /\ m <= 30)
           THEN TRUE
      ELSE IF (h = 13 /\ m >= 0) \/ (14 <= h /\ h < 15) \/ (h = 15 /\ m = 0)
           THEN TRUE
      ELSE FALSE

Max(a, b) == IF a >= b THEN a ELSE b

\* seconds to wait before the next check
get_next_check_interval(t) ==
  LET h == tm_hour(t)
      m == tm_min(t)
      s == tm_sec(t)
      current_time == <<h, m>>
      morning_open == TRADING_HOURS.morning_open
      afternoon_open == TRADING_HOURS.afternoon_open
      next_check ==
        IF TupleLess(current_time, morning_open)
        THEN (morning_open[1] - h) * 3600 + (morning_open[2] - m) * 60
        ELSE IF ~TupleLess(current_time, TRADING_HOURS.afternoon_close)
        THEN (86400 - (h * 3600 + m * 60 + s))
             + morning_open[1] * 3600 + morning_open[2] * 60
        ELSE IF TupleLess(TRADING_HOURS.morning_close, current_time)
                /\ TupleLess(current_time, afternoon_open)
        THEN (afternoon_open[1] - h) * 3600 + (afternoon_open[2] - m) * 60
        ELSE 300
  IN  Max(60, next_check)

(* ---------------------------------------------------------------------- *)
(* Snapshots, quotes and the bulk source                                   *)
(* ---------------------------------------------------------------------- *)
\* prices and percentages are counted in thousandths
Row(code, name, price, pct, vol) ==
  [code |-> code, name |-> name, price |-> price, pct |-> pct, vol |-> vol]

\* tables the bulk source ak.stock_zh_a_spot_em() may answer with
FullTable ==
  << Row(test_cases[1], <<"n","1">>, 15200, 310, 90000),
     Row(test_cases[3], <<"n","3">>, 10850, 1200, 120000),
     Row(test_cases[2], <<"n","2">>, 32504, -855, 50000),
     Row(test_cases[4], <<"n","4">>, 10905, 0, 70000),
     Row(test_cases[5], <<"n","5">>, 8000, 15, 1000),
     Row(test_cases[6], <<"n","6">>, 21000, -2000, 300000) >>
\* an answer of the bulk source: a table, or an exception (ok = FALSE)
UpstreamOutcomes ==
  {[ok |-> TRUE, rows |-> FullTable], [ok |-> TRUE, rows |-> <<>>],
   [ok |-> FALSE, rows |-> <<>>]}

\* round(x, 2) on thousandths, ties to even
Round2(x) ==
  LET q == x \div 10
      r == x % 10
  IN  IF r < 5 THEN q * 10
      ELSE IF r > 5 THEN (q + 1) * 10
      ELSE IF q % 2 = 0 THEN q * 10 ELSE (q + 1) * 10

\* the rows whose code is one of codes, in order
RECURSIVE SelectRows(_, _)
SelectRows(rows, codes) ==
  IF rows = <<>> THEN <<>>
  ELSE IF Head(rows).code \in codes
       THEN <<Head(rows)>> \o SelectRows(Tail(rows), codes)
       ELSE SelectRows(Tail(rows), codes)

CodesOf(rows) == {rows[i].code : i \in 1..Len(rows)}

\* body of get_cached_stock_data: the frame the wrapped function returns
\* for the answer `up` of the bulk source
FetchFrame(market, up) ==
  IF ~up.ok THEN <<>>
  ELSE IF market = A_SHANGHAI
  THEN SelectRows(up.rows, {c \in CodesOf(up.rows) :
         StartsWith(c, <<"6">>) \/ StartsWith(c, <<"5">>) \/ StartsWith(c, <<"9">>)})
  ELSE IF market = A_SHENZHEN
  THEN SelectRows(up.rows, {c \in CodesOf(up.rows) :
         StartsWith(c, <<"0">>) \/ StartsWith(c, <<"3">>)})
  ELSE <<>>

format_a_share_data(row) ==
  [kind |-> "quote", code |-> row.code, name |-> row.name,
   price |-> Round2(row.price), pct |-> Round2(row.pct), vol |-> row.vol,
   market |-> "A", source |-> "primary"]

\* get_stock_realtime_price once the frame df of the market is known
PrimaryResult(stock_code, df) ==
  LET code == format_stock_code(stock_code)[1]
      target == SelectRows(df, {c \in CodesOf(df) : StrContains(c, code)})
  IN  IF df /= <<>> /\ target /= <<>>
      THEN format_a_share_data(target[1])
      ELSE None

(* ---------------------------------------------------------------------- *)
(* TTLCache(maxsize=256, ttl=120) behind @cached(stock_cache)              *)
(* A cache is [data, currsize, links]: the stored values, the size         *)
(* counter and the expiry list, oldest link first.                         *)
(* ---------------------------------------------------------------------- *)
NoVal == [absent |-> TRUE]
TTLTicks == CACHE_TTL * TicksPerSec

EmptyCache ==
  [data |-> [m \in MarketType |-> NoVal], currsize |-> 0, links |-> <<>>]

LinkIndex(c, k) ==
  IF \E i \in 1..Len(c.links) : c.links[i].key = k
  THEN CHOOSE i \in 1..Len(c.links) : c.links[i].key = k
  ELSE 0

RemoveAt(s, i) == SubSeq(s, 1, i - 1) \o SubSeq(s, i + 1, Len(s))

\* a lookup that never looks at the expiry time
CacheLive_NoExpiry(c, k, t) ==
  /\ LinkIndex(c, k) /= 0
  /\ c.data[k] /= NoVal

\* TTLCache.__getitem__: a live link gives the value, anything else misses
CacheLive(c, k, t) ==
  /\ LinkIndex(c, k) /= 0
  /\ t < c.links[LinkIndex(c, k)].expires
  /\ c.data[k] /= NoVal

\* TTLCache.expire(time): drop the links at the front that have expired
RECURSIVE Expire(_, _)
Expire(c, t) ==
  IF c.links /= <<>> /\ ~(t < Head(c.links).expires)
  THEN Expire([data |-> [c.data EXCEPT ![Head(c.links).key] = NoVal],
               currsize |-> c.currsize - 1,
               links |-> Tail(c.links)], t)
  ELSE c

\* Cache.popitem as TTLCache does it: the oldest link goes
PopItem(c) ==
  [data |-> [c.data EXCEPT ![Head(c.links).key] = NoVal],
   currsize |-> c.currsize - 1,
   links |-> Tail(c.links)]

\* Cache.__setitem__, first half: what the size counter will grow by,
\* read before the value is written
SetDiff(c, k) == IF c.data[k] /= NoVal THEN 0 ELSE 1

\* Cache.__setitem__: room is made while the counter would pass maxsize
RECURSIVE MakeRoom(_, _)
MakeRoom(c, k) ==
  IF c.data[k] = NoVal /\ c.currsize + 1 > CACHE_MAXSIZE /\ c.links /= <<>>
  THEN MakeRoom(PopItem(c), k)
  ELSE c

\* a write that puts the value under every key
SetWrite_AllKeys(c, k, v, diff) ==
  [c EXCEPT !.data = [m \in MarketType |-> v], !.currsize = c.currsize + diff]

\* Cache.__setitem__, second half: the value and the counter are written
SetWrite(c, k, v, diff) ==
  [c EXCEPT !.data[k] = v, !.currsize = c.currsize + diff]

\* a link that expires the moment it is stored
SetLink_NoTTL(c, k, t) ==
  LET i == LinkIndex(c, k)
      rest == IF i = 0 THEN c.links ELSE RemoveAt(c.links, i)
  IN  [c EXCEPT !.links = Append(rest, [key |-> k, expires |-> t])]

\* TTLCache.__setitem__, the link of the key goes to the end of the list
\* with a new expiry
SetLink(c, k, t) ==
  LET i == LinkIndex(c, k)
      rest == IF i = 0 THEN c.links ELSE RemoveAt(c.links, i)
  IN  [c EXCEPT !.links = Append(rest, [key |-> k, expires |-> t + TTLTicks])]

\* cache[k] = v at time t, run without interruption
CacheSetItem(c, k, v, t) ==
  LET c1 == MakeRoom(Expire(c, t), k)
  IN  SetLink(SetWrite(c1, k, v, SetDiff(c1, k)), k, t)

(* ---------------------------------------------------------------------- *)
(* Backup source: the answers of the secondary endpoint                    *)
(* ---------------------------------------------------------------------- *)
\* a field of the data object: absent, a number, or a non-numeric string
Num(v) == [has |-> TRUE, num |-> TRUE, val |-> v]
Missing == [has |-> FALSE, num |-> FALSE, val |-> 0]
Dash == [has |-> TRUE, num |-> FALSE, val |-> 0]
Name(n) == [has |-> TRUE, val |-> n]
NoName == [has |-> FALSE, val |-> <<>>]

Item(f58, f43, f170, f47) == [f58 |-> f58, f43 |-> f43, f170 |-> f170, f47 |-> f47]

Items ==
  { Item(Name(<<"b","1">>), Num(32500), Num(850), Num(50000)),
    Item(Name(<<"b","2">>), Num(3250000), Num(85000), Num(50000)),
    Item(Name(<<"b","3">>), Missing, Num(850), Num(50000)),
    Item(NoName, Num(10904), Missing, Missing),
    Item(Name(<<"b","5">>), Dash, Dash, Dash),
    Item(Name(<<"b","6">>), Num(32500), Num(850), Dash) }

\* the value under "data": missing or null, an empty object, something
\* that is not an object, or an object
Datas ==
  { [shape |-> "absent", item |-> Item(NoName, Missing, Missing, Missing)],
    [shape |-> "empty", item |-> Item(NoName, Missing, Missing, Missing)],
    [shape |-> "list", item |-> Item(NoName, Missing, Missing, Missing)] }
  \cup { [shape |-> "obj", item |-> it] : it \in Items }

\* a decoded JSON body: a non-object, or an object with rc and data
Bodies ==
  { [dict |-> FALSE, has_rc |-> FALSE, rc |-> 0,
     data |-> [shape |-> "absent", item |-> Item(NoName, Missing, Missing, Missing)]] }
  \cup { [dict |-> TRUE, has_rc |-> FALSE, rc |-> 0, data |-> d] : d \in Datas }
  \cup { [dict |-> TRUE, has_rc |-> TRUE, rc |-> r, data |-> d] :
           r \in {0, 1}, d \in Datas }

\* what session.get, raise_for_status and response.json() come to
Responses ==
  { [kind |-> k, body |-> CHOOSE b \in Bodies : ~b.dict] :
      k \in {"error", "status", "notjson"} }
  \cup { [kind |-> "json", body |-> b] : b \in Bodies }

\* the answers the polling loop is followed under: a failed request, a
\* refusal (rc = 1) and a complete object
LoopResponses ==
  { r \in Responses :
      \/ r.kind = "error"
      \/ /\ r.kind = "json" /\ r.body.dict /\ r.body.has_rc
         /\ \/ r.body.rc = 1 /\ r.body.data.shape = "absent"
            \/ /\ r.body.rc = 0 /\ r.body.data.shape = "obj"
               /\ r.body.data.item.f58.has
               /\ r.body.data.item.f58.val = <<"b","1">> }

\* an exception leaving a function
Raise == [kind |-> "raise"]

\* if result := ... / if result: a dict with entries is true, None is not
Truthy(r) == r /= None

\* dict.get("data") is truthy
DataTruthy(d) == d.shape \in {"list", "obj"}

\* a parser that does not look at rc
parse_eastmoney_data_NoRc(data, code, market) ==
  IF ~data.dict THEN Raise
  ELSE IF DataTruthy(data.data)
  THEN IF data.data.shape /= "obj" THEN Raise
       ELSE [kind |-> "quote", code |-> code,
             name |-> IF data.data.item.f58.has THEN data.data.item.f58.val ELSE code,
             price |-> Round2(IF data.data.item.f43.has THEN data.data.item.f43.val ELSE 0),
             pct |-> Round2(IF data.data.item.f170.has THEN data.data.item.f170.val ELSE 0),
             vol |-> IF data.data.item.f47.has THEN data.data.item.f47.val ELSE 0,
             market |-> market, source |-> "backup"]
  ELSE None

\* a field taken as a scaled integer and divided by 100
RoundField_Scaled(f) == Round2((IF f.has THEN f.val ELSE 0) \div 100)

\* round(float(item.get(field, 0)), 2): the value as received, no division
RoundField(f) == Round2(IF f.has THEN f.val ELSE 0)

parse_eastmoney_data(data, code, market) ==
  IF ~data.dict THEN Raise
  ELSE IF data.has_rc /\ data.rc = 0 /\ DataTruthy(data.data)
  THEN LET item == data.data.item
       IN  IF data.data.shape /= "obj" THEN Raise
           ELSE IF (item.f43.has /\ ~item.f43.num)
                   \/ (item.f170.has /\ ~item.f170.num)
                   \/ (item.f47.has /\ ~item.f47.num)
           THEN Raise
           ELSE [kind |-> "quote", code |-> code,
                 name |-> IF item.f58.has THEN item.f58.val ELSE code,
                 price |-> RoundField(item.f43),
                 pct |-> RoundField(item.f170),
                 vol |-> IF item.f47.has THEN item.f47.val ELSE 0,
                 market |-> market, source |-> "backup"]
  ELSE None

\* the try block of get_stock_price_backup for the answer resp of the
\* endpoint: session.get, raise_for_status and response.json() raise on a
\* request error, a status that is not 2xx and a body that is not JSON
BackupTry(stock_code, resp) ==
  LET fm == format_stock_code(stock_code)
  IN  IF resp.kind = "json"
      THEN parse_eastmoney_data(resp.body, fm[1], fm[2])
      ELSE Raise

\* except Exception: log and return None
get_stock_price_backup(stock_code, resp) ==
  LET r == BackupTry(stock_code, resp)
  IN  IF r = Raise THEN None ELSE r

(* ---------------------------------------------------------------------- *)
(* State                                                                   *)
(* ---------------------------------------------------------------------- *)
VARIABLES
  now,          \* the clock, in ticks
  pc,           \* position of the main program
  cycles,       \* polling cycles started so far
  idx,          \* index into test_cases of the symbol being processed
  cycle_start,  \* cycle_start of the polling loop
  start_time,   \* start_time of the symbol being processed
  cache,        \* stock_cache
  fetchCount,   \* calls of ak.stock_zh_a_spot_em() made so far
  strategy,     \* get_stock_price: 1 = primary, 2 = backup
  retry,        \* get_stock_price: the loop variable retry
  result,       \* get_stock_price: result
  events,       \* history of the running get_stock_price call
  lastLog,      \* what the loop logged last for a symbol
  notified,     \* the price alert was shown for the current symbol
  stored,       \* history: per market, the last store into the cache
  lastGet,      \* history: the last call of get_cached_stock_data
  tpc,          \* per thread: position inside get_cached_stock_data
  tval,         \* per thread: the frame its own fetch produced
  tdiff,        \* per thread: diffsize read in Cache.__setitem__
  tret,         \* per thread: the value returned to it
  bkCode,       \* backup resolver alone: the code it is called with
  bkResp,       \* backup resolver alone: the answer of the endpoint
  bkOut,        \* backup resolver alone: what it returned
  cacheAtEntry, \* history: stock_cache when get_stock_price was entered
  prCode,       \* primary resolver alone: the code it is called with
  prUp,         \* primary resolver alone: the answer of the bulk source
  prOut,        \* primary resolver alone: what it returned
  nmIn,         \* normalizer alone: the raw string
  nmOut,        \* normalizer alone: format_stock_code(nmIn)
  nmAgain,      \* normalizer alone: format_stock_code of the code of nmOut
  capital,      \* backtest: the cash balance, in thousandths
  position,     \* backtest: the shares held
  portfolio     \* backtest: the rows written so far

vars == <<now, pc, cycles, idx, cycle_start, start_time, cache, fetchCount,
          strategy, retry, result, events, lastLog, notified, stored,
          lastGet, tpc, tval, tdiff, tret, bkCode, bkResp, bkOut,
          cacheAtEntry, prCode, prUp, prOut, nmIn, nmOut, nmAgain,
          capital, position, portfolio>>

btVars == <<capital, position, portfolio>>
pureVars == <<prCode, prUp, prOut, nmIn, nmOut, nmAgain, btVars>>
loopVars == <<cycles, idx, cycle_start, start_time, lastLog, notified,
              cacheAtEntry>>
threadVars == <<tpc, tval, tdiff, tret, bkCode, bkResp, bkOut, pureVars>>
dispVars == <<strategy, retry, result, events>>

Threads == 1..NumThreads

FetchDelays == {0, MaxFetchSecs * TicksPerSec}
\* time.sleep(0.5)
HalfSec == TicksPerSec \div 2

Monday(h, m, sec) == (h * 3600 + m * 60 + sec) * TicksPerSec
StartTimes == {Monday(9, 29, 0)}

NeverStored == [at |-> -1, ver |-> 0, refreshed |-> FALSE, cleared |-> FALSE]
NoGet ==
  [n |-> 0, m |-> A_SHANGHAI, at |-> 0, done |-> 0, hit |-> FALSE,
   fetched |-> 0, ver |-> 0, prev |-> NeverStored, expires |-> 0]

\* the state of the process once the module is loaded
Loaded ==
  /\ cycles = 0
  /\ idx = 1
  /\ cycle_start = 0
  /\ start_time = 0
  /\ cache = EmptyCache
  /\ fetchCount = 0
  /\ strategy = 1
  /\ retry = 0
  /\ result = None
  /\ events = <<>>
  /\ lastLog = "none"
  /\ notified = FALSE
  /\ stored = [m \in MarketType |-> NeverStored]
  /\ lastGet = NoGet
  /\ tval = [t \in Threads |-> NoVal]
  /\ tdiff = [t \in Threads |-> 0]
  /\ tret = [t \in Threads |-> NoVal]
  /\ bkOut = None
  /\ cacheAtEntry = EmptyCache
  /\ prOut = None
  /\ nmOut = <<<<>>, A_SHANGHAI>>
  /\ nmAgain = <<<<>>, A_SHANGHAI>>
  /\ capital = initial_capital * Thousand
  /\ position = 0
  /\ portfolio = <<>>

\* the resolvers and the normalizer are not being called on their own
BackupIdle ==
  /\ bkCode = test_cases[1]
  /\ bkResp = CHOOSE r \in Responses : r.kind = "error"
PrimaryIdle ==
  /\ prCode = test_cases[1]
  /\ prUp = [ok |-> FALSE, rows |-> <<>>]
NormIdle == nmIn = <<>>

\* the script is run: the polling loop starts
Init ==
  /\ Loaded
  /\ now \in StartTimes
  /\ pc = "loop"
  /\ tpc = [t \in Threads |-> "idle"]
  /\ BackupIdle
  /\ PrimaryIdle
  /\ NormIdle

(* ---------------------------------------------------------------------- *)
(* Dispatcher get_stock_price                                              *)
(* ---------------------------------------------------------------------- *)
\* time.sleep(0.5 * (retry + 1)), in ticks
Backoff(r) == HalfSec * (r + 1)

\* a list that names the backup resolver first
strategies_BackupFirst == <<2, 1>>

\* strategies = [get_stock_realtime_price, get_stock_price_backup]: the
\* primary resolver is 1, the backup resolver is 2
strategies == <<1, 2>>

\* a resolver that normalizes its argument twice
NormsPerCall_Twice == 1 + 1

\* code, market = format_stock_code(stock_code): the first statement of
\* either resolver, run once in every call of it
NormsPerCall == 1

CallEv(who, r, res, req, netfail) ==
  [ev |-> "call", who |-> who, attempt |-> r + 1, res |-> res,
   req |-> req, netfail |-> netfail, ticks |-> 0, norms |-> NormsPerCall]
SleepEv(who, r) ==
  [ev |-> "sleep", who |-> who, attempt |-> r + 1, res |-> None,
   req |-> FALSE, netfail |-> FALSE, ticks |-> Backoff(r), norms |-> 0]

\* a dispatcher that never returns from inside the loops
ReturnsEarly_Never(res) == FALSE

\* if result := strategy(stock_code): return result
ReturnsEarly(res) == Truthy(res)

\* the loops of get_stock_price after the call strategy(stock_code) has
\* returned res at time t
Dispatch(res, t, req, netfail) ==
  IF ReturnsEarly(res)
  THEN /\ result' = res
       /\ events' = Append(events, CallEv(strategies[strategy], retry, res,
                                          req, netfail))
       /\ now' = t
       /\ pc' = "after"
       /\ UNCHANGED <<strategy, retry>>
  ELSE /\ events' = events \o <<CallEv(strategies[strategy], retry, res,
                                      req, netfail),
                               SleepEv(strategies[strategy], retry)>>
       /\ now' = t + Backoff(retry)
       /\ result' = None
       /\ IF retry + 1 < RETRIES
          THEN /\ retry' = retry + 1
               /\ UNCHANGED <<strategy, pc>>
          ELSE IF strategy < Len(strategies)
          THEN /\ strategy' = strategy + 1
               /\ retry' = 0
               /\ UNCHANGED pc
          ELSE /\ pc' = "after"
               /\ UNCHANGED <<strategy, retry>>

\* strategy(stock_code) with strategy = get_stock_realtime_price; the
\* frame comes from the cache or, on a miss, from the bulk source
CallPrimary ==
  /\ pc = "resolve"
  /\ strategies[strategy] = 1
  /\ LET sc == test_cases[idx]
         m == format_stock_code(sc)[2]
     IN  IF CacheLive(cache, m, now)
         THEN /\ lastGet' = [n |-> 1, m |-> m, at |-> now,
                             done |-> now, hit |-> TRUE, fetched |-> 0,
                             ver |-> cache.data[m].ver, prev |-> stored[m],
                             expires |-> cache.links[LinkIndex(cache, m)].expires]
              /\ Dispatch(PrimaryResult(sc, cache.data[m].rows), now, FALSE, FALSE)
              /\ UNCHANGED <<cache, fetchCount, stored>>
         ELSE \E up \in UpstreamOutcomes, d \in FetchDelays :
                fetchCount < MaxFetches /\
                LET df == [ver |-> fetchCount + 1, rows |-> FetchFrame(m, up)]
                    t == now + d
                IN  /\ fetchCount' = fetchCount + 1
                    /\ cache' = CacheSetItem(cache, m, df, t)
                    /\ stored' = [stored EXCEPT ![m] =
                                    [at |-> t, ver |-> df.ver,
                                     refreshed |-> stored[m].at >= 0
                                                   /\ now >= stored[m].at + TTLTicks,
                                     cleared |-> FALSE]]
                    /\ lastGet' = [n |-> 1, m |-> m, at |-> now,
                                   done |-> t, hit |-> FALSE, fetched |-> 1,
                                   ver |-> cache'.data[m].ver, prev |-> stored[m],
                                   expires |-> cache'.links[LinkIndex(cache', m)].expires]
                    /\ Dispatch(PrimaryResult(sc, df.rows), t, TRUE, ~up.ok)
  /\ UNCHANGED <<loopVars, threadVars>>

\* strategy(stock_code) with strategy = get_stock_price_backup
CallBackup ==
  /\ pc = "resolve"
  /\ strategies[strategy] = 2
  /\ \E resp \in LoopResponses :
       Dispatch(get_stock_price_backup(test_cases[idx], resp),
                now, TRUE,
                resp.kind \in {"error", "status"})
  /\ UNCHANGED <<loopVars, threadVars, cache, fetchCount, stored, lastGet>>

(* ---------------------------------------------------------------------- *)
(* The polling loop of __main__                                            *)
(* ---------------------------------------------------------------------- *)
\* if not is_trading_time(): time.sleep(get_next_check_interval()); continue
NotTrading ==
  /\ pc = "loop"
  /\ cycles < MaxCycles
  /\ ~is_trading_time(now)
  /\ now' = now + get_next_check_interval(now) * TicksPerSec
  /\ UNCHANGED <<pc, loopVars, dispVars, threadVars, cache, fetchCount,
                 stored, lastGet>>

\* cycle_start = time.time(); stock_cache.clear(); the for loop begins
StartCycle ==
  /\ pc = "loop"
  /\ cycles < MaxCycles
  /\ is_trading_time(now)
  /\ cycles' = cycles + 1
  /\ cycle_start' = now
  /\ cache' = EmptyCache
  /\ stored' = [m \in MarketType |->
                  IF stored[m].at >= 0 THEN [stored[m] EXCEPT !.cleared = TRUE]
                  ELSE stored[m]]
  /\ idx' = 1
  /\ pc' = "symbol"
  /\ UNCHANGED <<now, start_time, lastLog, notified, dispVars, threadVars,
                 fetchCount, lastGet, cacheAtEntry>>

\* start_time = time.time(); get_stock_price(code) is entered
StartResolve ==
  /\ pc = "symbol"
  /\ start_time' = now
  /\ strategy' = 1
  /\ retry' = 0
  /\ result' = None
  /\ events' = <<>>
  /\ notified' = FALSE
  /\ pc' = "resolve"
  /\ cacheAtEntry' = cache
  /\ UNCHANGED <<now, cycles, idx, cycle_start, lastLog, threadVars, cache,
                 fetchCount, stored, lastGet>>

\* the if/else that logs the quote or the failure
LogResult ==
  /\ pc = "after"
  /\ lastLog' = IF Truthy(result) THEN "ok" ELSE "fail"
  /\ pc' = "alert"
  /\ UNCHANGED <<now, cycles, idx, cycle_start, start_time, notified,
                 cacheAtEntry, dispVars, threadVars, cache, fetchCount,
                 stored, lastGet>>

\* result['...'] on None: TypeError, nothing catches it
AlertCrash ==
  /\ pc = "alert"
  /\ ~Truthy(result)
  /\ pc' = "crashed"
  /\ UNCHANGED <<now, loopVars, dispVars, threadVars, cache, fetchCount,
                 stored, lastGet>>

\* 10.9 in thousandths
ALERT_PRICE == 10900

\* elapsed time of the cycle made up to 180 seconds
CycleRest(t) ==
  IF t - cycle_start < CYCLE_SECS * TicksPerSec
  THEN CYCLE_SECS * TicksPerSec - (t - cycle_start)
  ELSE 0

\* the price alert, time.sleep(0.5), then the next symbol or the end of
\* the cycle
AlertNext ==
  /\ pc = "alert"
  /\ Truthy(result)
  /\ notified' = (result.code = test_cases[3] /\ result.price >= ALERT_PRICE)
  /\ IF idx < Len(test_cases)
     THEN /\ idx' = idx + 1
          /\ now' = now + HalfSec
          /\ pc' = "symbol"
     ELSE /\ idx' = idx
          /\ now' = now + HalfSec + CycleRest(now + HalfSec)
          /\ pc' = "loop"
  /\ UNCHANGED <<cycles, cycle_start, start_time, lastLog, cacheAtEntry,
                 dispVars, threadVars, cache, fetchCount, stored, lastGet>>

Next ==
  \/ NotTrading
  \/ StartCycle
  \/ StartResolve
  \/ CallPrimary
  \/ CallBackup
  \/ LogResult
  \/ AlertCrash
  \/ AlertNext

Spec == Init /\ [][Next]_vars

(* ---------------------------------------------------------------------- *)
(* The polling loop with a bulk source that may never answer               *)
(* ak.stock_zh_a_spot_em() is called with no timeout argument and nothing  *)
(* around the call bounds its duration; the backup request is made with    *)
(* timeout=10 and ends in an exception, which is the "error" answer of     *)
(* CallBackup.                                                             *)
(* ---------------------------------------------------------------------- *)
\* the primary resolver misses the cache, get_cached_stock_data calls the
\* bulk source and the source never answers: the call does not return
BulkFetchHangs ==
  /\ pc = "resolve"
  /\ strategies[strategy] = 1
  /\ ~CacheLive(cache, format_stock_code(test_cases[idx])[2], now)
  /\ pc' = "blocked"
  /\ UNCHANGED <<now, loopVars, dispVars, threadVars, cache, fetchCount,
                 stored, lastGet>>

NextNet ==
  \/ Next
  \/ BulkFetchHangs

SpecNet == Init /\ [][NextNet]_vars

(* ---------------------------------------------------------------------- *)
(* get_cached_stock_data called from several threads                       *)
(* @cached(stock_cache) is given no lock: the lookup, the wrapped          *)
(* function and the steps of cache[k] = v of the threads interleave.       *)
(* ---------------------------------------------------------------------- *)
\* the market all threads ask for
ConcMarket == A_SHANGHAI

InitConc ==
  /\ Loaded
  /\ now = Monday(10, 0, 0)
  /\ pc = "threads"
  /\ tpc = [t \in Threads |-> "call"]
  /\ BackupIdle
  /\ PrimaryIdle
  /\ NormIdle

\* try: return cache[k]  except KeyError: pass
T_Lookup(t) ==
  /\ pc = "threads"
  /\ tpc[t] = "call"
  /\ IF CacheLive(cache, ConcMarket, now)
     THEN /\ tret' = [tret EXCEPT ![t] = cache.data[ConcMarket]]
          /\ tpc' = [tpc EXCEPT ![t] = "done"]
     ELSE /\ tpc' = [tpc EXCEPT ![t] = "fetch"]
          /\ UNCHANGED tret
  /\ UNCHANGED <<now, pc, loopVars, dispVars, cache, fetchCount, stored,
                 lastGet, tval, tdiff, bkCode, bkResp, bkOut, pureVars>>

\* v = func(market): the bulk download
T_Fetch(t) ==
  /\ pc = "threads"
  /\ tpc[t] = "fetch"
  /\ \E up \in UpstreamOutcomes :
       tval' = [tval EXCEPT ![t] =
                  [ver |-> fetchCount + 1, rows |-> FetchFrame(ConcMarket, up)]]
  /\ fetchCount' = fetchCount + 1
  /\ tpc' = [tpc EXCEPT ![t] = "set_read"]
  /\ UNCHANGED <<now, pc, loopVars, dispVars, cache, stored, lastGet,
                 tdiff, tret, bkCode, bkResp, bkOut, pureVars>>

\* cache[k] = v: expire, make room, read whether the key is present
T_SetRead(t) ==
  /\ pc = "threads"
  /\ tpc[t] = "set_read"
  /\ cache' = MakeRoom(Expire(cache, now), ConcMarket)
  /\ tdiff' = [tdiff EXCEPT ![t] = SetDiff(cache', ConcMarket)]
  /\ tpc' = [tpc EXCEPT ![t] = "set_write"]
  /\ UNCHANGED <<now, pc, loopVars, dispVars, fetchCount, stored, lastGet,
                 tval, tret, bkCode, bkResp, bkOut, pureVars>>

\* cache[k] = v: write the value and add diffsize to the counter
T_SetWrite(t) ==
  /\ pc = "threads"
  /\ tpc[t] = "set_write"
  /\ cache' = SetWrite(cache, ConcMarket, tval[t], tdiff[t])
  /\ tpc' = [tpc EXCEPT ![t] = "set_link"]
  /\ UNCHANGED <<now, pc, loopVars, dispVars, fetchCount, stored, lastGet,
                 tval, tdiff, tret, bkCode, bkResp, bkOut, pureVars>>

\* cache[k] = v: the link; then return v
T_SetLink(t) ==
  /\ pc = "threads"
  /\ tpc[t] = "set_link"
  /\ cache' = SetLink(cache, ConcMarket, now)
  /\ tret' = [tret EXCEPT ![t] = tval[t]]
  /\ tpc' = [tpc EXCEPT ![t] = "done"]
  /\ UNCHANGED <<now, pc, loopVars, dispVars, fetchCount, stored, lastGet,
                 tval, tdiff, bkCode, bkResp, bkOut, pureVars>>

NextConc ==
  \E t \in Threads :
    \/ T_Lookup(t)
    \/ T_Fetch(t)
    \/ T_SetRead(t)
    \/ T_SetWrite(t)
    \/ T_SetLink(t)

SpecConc == InitConc /\ [][NextConc]_vars

(* ---------------------------------------------------------------------- *)
(* The backup resolver on its own, for every code and every answer         *)
(* ---------------------------------------------------------------------- *)
BackupCodes == {test_cases[i] : i \in 1..Len(test_cases)}

InitBackup ==
  /\ Loaded
  /\ now = Monday(10, 0, 0)
  /\ pc = "backup_call"
  /\ tpc = [t \in Threads |-> "idle"]
  /\ bkCode \in BackupCodes
  /\ bkResp \in Responses
  /\ PrimaryIdle
  /\ NormIdle

BackupApply ==
  /\ pc = "backup_call"
  /\ bkOut' = get_stock_price_backup(bkCode, bkResp)
  /\ pc' = "backup_done"
  /\ UNCHANGED <<now, loopVars, dispVars, cache, fetchCount, stored, lastGet,
                 tpc, tval, tdiff, tret, bkCode, bkResp, pureVars>>

NextBackup == BackupApply

SpecBackup == InitBackup /\ [][NextBackup]_vars

(* ---------------------------------------------------------------------- *)
(* The primary resolver alone                                              *)
(* get_stock_realtime_price(prCode) on an empty stock_cache, the bulk      *)
(* source answering prUp.                                                  *)
(* ---------------------------------------------------------------------- *)
PrimaryCodes ==
  { <<"6","0","0","1","3","3">>,
    <<"0","0","0","9","7","7">>,
    <<"s","h","6","0","0","1","3","3">>,
    <<"0","0","9","7">>,
    <<"0","0">>,
    <<"6">>,
    <<"6","0","0","1","3",".">>,
    <<"A","A","P","L">>,
    <<"9","9","9","9","9","9">>,
    <<"6","0","1","0","1","2">>,
    <<>>,
    <<"0",".","2">>,
    <<"6","0","0","5">>,
    <<"s","z","0","0","2","7","4","7">> }

\* a table in another order, one with Shenzhen rows only, one with
\* Shanghai rows only
PrimaryTables ==
  UpstreamOutcomes \cup
  { [ok |-> TRUE, rows |-> [i \in 1..Len(FullTable) |->
                              FullTable[Len(FullTable) + 1 - i]]],
    [ok |-> TRUE, rows |-> SelectRows(FullTable,
                             {test_cases[1], test_cases[2], test_cases[5]})],
    [ok |-> TRUE, rows |-> SelectRows(FullTable,
                             {test_cases[3], test_cases[4], test_cases[6]})] }

InitPrimary ==
  /\ Loaded
  /\ now = Monday(10, 0, 0)
  /\ pc = "primary_call"
  /\ tpc = [t \in Threads |-> "idle"]
  /\ BackupIdle
  /\ prCode \in PrimaryCodes
  /\ prUp \in PrimaryTables
  /\ NormIdle

\* the call: the cache is empty, so get_cached_stock_data runs its body
\* and the frame is stored under the market
PrimaryApply ==
  /\ pc = "primary_call"
  /\ LET m == format_stock_code(prCode)[2]
         df == [ver |-> fetchCount + 1, rows |-> FetchFrame(m, prUp)]
     IN  /\ fetchCount' = fetchCount + 1
         /\ cache' = CacheSetItem(cache, m, df, now)
         /\ prOut' = PrimaryResult(prCode, df.rows)
  /\ pc' = "primary_done"
  /\ UNCHANGED <<now, loopVars, dispVars, stored, lastGet, tpc, tval, tdiff,
                 tret, bkCode, bkResp, bkOut, prCode, prUp, nmIn, nmOut,
                 nmAgain, btVars>>

NextPrimary == PrimaryApply

SpecPrimary == InitPrimary /\ [][NextPrimary]_vars

(* ---------------------------------------------------------------------- *)
(* The normalizer alone                                                    *)
(* format_stock_code(nmIn), then format_stock_code of the code it gave.    *)
(* ---------------------------------------------------------------------- *)
NormBases ==
  { <<"6","0","0","1","3","3">>,
    <<"0","0","0","9","7","7">>,
    <<"3","0","0","7","5","0">>,
    <<"5","1","0","3","0","0">>,
    <<"9","0","0","9","0","1">>,
    <<"7","0","0","0","0","1">>,
    <<"0","0","7","0","0">>,
    <<"0","0","7","0","0","1">>,
    <<"A","A","P","L">>,
    <<"a","a","p","l">>,
    <<"m","s","f","t">>,
    <<"a","b","c">>,
    <<>>,
    <<"1","2","3","4","5">>,
    <<"1","2","3","4","5","6","7">>,
    <<"6","0","0","1","3","3",".","S","H">> }

NormPrefixes == { <<>>, <<"s","h">>, <<"S","Z">>, <<".">>, <<"H","z",".">> }

NormInputs == {p \o b : p \in NormPrefixes, b \in NormBases}

InitNorm ==
  /\ Loaded
  /\ now = Monday(10, 0, 0)
  /\ pc = "norm_call"
  /\ tpc = [t \in Threads |-> "idle"]
  /\ BackupIdle
  /\ PrimaryIdle
  /\ nmIn \in NormInputs

NormApply ==
  /\ pc = "norm_call"
  /\ nmOut' = format_stock_code(nmIn)
  /\ pc' = "norm_once"
  /\ UNCHANGED <<now, loopVars, dispVars, cache, fetchCount, stored, lastGet,
                 tpc, tval, tdiff, tret, bkCode, bkResp, bkOut, prCode, prUp,
                 prOut, nmIn, nmAgain, btVars>>

NormAgain ==
  /\ pc = "norm_once"
  /\ nmAgain' = format_stock_code(nmOut[1])
  /\ pc' = "norm_twice"
  /\ UNCHANGED <<now, loopVars, dispVars, cache, fetchCount, stored, lastGet,
                 tpc, tval, tdiff, tret, bkCode, bkResp, bkOut, prCode, prUp,
                 prOut, nmIn, nmOut, btVars>>

NextNorm ==
  \/ NormApply
  \/ NormAgain

SpecNorm == InitNorm /\ [][NextNorm]_vars

(* ---------------------------------------------------------------------- *)
(* The polling loop outside trading hours                                  *)
(* The script is started at any minute of the week at which                *)
(* is_trading_time() is false; the loop sleeps and checks again until it   *)
(* is true. time.sleep returns, so the loop keeps taking its step.         *)
(* ---------------------------------------------------------------------- *)
\* the seconds of the minute the script is started at
ClockSeconds == {0, 29, 59}

ClockStarts ==
  {t \in {((d * 1440 + mi) * 60 + sec) * TicksPerSec :
            d \in 0..6, mi \in 0..1439, sec \in ClockSeconds} :
     ~is_trading_time(t)}

InitClock ==
  /\ Loaded
  /\ now \in ClockStarts
  /\ pc = "loop"
  /\ tpc = [t \in Threads |-> "idle"]
  /\ BackupIdle
  /\ PrimaryIdle
  /\ NormIdle

NextClock == NotTrading

SpecClock == InitClock /\ [][NextClock]_vars /\ WF_vars(NextClock)

(* ---------------------------------------------------------------------- *)
(* backtest(df) of stock_macd.py                                           *)
(* One step is one pass of the for loop: the row's signal and close are    *)
(* read, the trade is made and the row of the portfolio is written. The    *)
(* closes are whole yuan, positive; amounts are exact.                     *)
(* ---------------------------------------------------------------------- *)
\* a close at which one share costs more than the whole starting cash
DearClose == initial_capital + initial_capital \div 5
Closes == {9, 11, DearClose}
Signals == {-1, 0, 1}

\* a purchase of one share more than the cash pays for
shares_bought_OneMore(cap, current_price) ==
  cap \div (current_price * (Thousand + transaction_cost)) + 1

\* capital // (current_price * (1 + transaction_cost))
shares_bought(cap, current_price) ==
  cap \div (current_price * (Thousand + transaction_cost))

InitBacktest ==
  /\ Loaded
  /\ now = Monday(10, 0, 0)
  /\ pc = "backtest"
  /\ tpc = [t \in Threads |-> "idle"]
  /\ BackupIdle
  /\ PrimaryIdle
  /\ NormIdle

\* the body of the for loop for a row with the given signal and close; the
\* dear close is met only while no share is held, which keeps every amount
\* within 32-bit integers
BacktestStep ==
  /\ pc = "backtest"
  /\ Len(portfolio) < MaxDays
  /\ \E current_signal \in Signals, current_price \in Closes :
       /\ current_price = DearClose => position = 0
       /\ LET bought == shares_bought(capital, current_price)
              cost == bought * current_price * (Thousand + transaction_cost)
              proceeds == position * current_price * (Thousand - transaction_cost)
              buys == current_signal = 1 /\ position = 0 /\ bought > 0
              sells == current_signal = -1 /\ position > 0
          IN  /\ capital' = IF buys THEN capital - cost
                            ELSE IF sells THEN capital + proceeds
                            ELSE capital
              /\ position' = IF buys THEN bought
                             ELSE IF sells THEN 0
                             ELSE position
              /\ portfolio' = Append(portfolio,
                                 [close |-> current_price,
                                  cash |-> capital',
                                  shares |-> position',
                                  total |-> capital' + position' * current_price * Thousand,
                                  signal |-> current_signal])
  /\ UNCHANGED <<now, pc, loopVars, dispVars, cache, fetchCount, stored, lastGet,
                 tpc, tval, tdiff, tret, bkCode, bkResp, bkOut, prCode, prUp,
                 prOut, nmIn, nmOut, nmAgain>>

NextBacktest == BacktestStep

SpecBacktest == InitBacktest /\ [][NextBacktest]_vars

(* ---------------------------------------------------------------------- *)
(* Properties                                                              *)
(* ---------------------------------------------------------------------- *)
IsCall(e, w) == e.ev = "call" /\ e.who = w
CallsOf(w) == {i \in DOMAIN events : IsCall(events[i], w)}
Returned == pc \in {"after", "alert", "crashed", "symbol", "loop"}

RECURSIVE SleptTicks(_)
SleptTicks(es) ==
  IF es = <<>> THEN 0
  ELSE (IF Head(es).ev = "sleep" THEN Head(es).ticks ELSE 0) + SleptTicks(Tail(es))

\* C1: in a get_stock_price call, once a call of the primary resolver has
\* returned a quote, that call was the last thing the dispatcher did: the
\* backup resolver is not called and the quote is the value returned.
C1_ShortCircuit ==
  \A i \in DOMAIN events :
    (IsCall(events[i], 1) /\ events[i].res /= None) =>
      /\ i = Len(events)
      /\ CallsOf(2) = {}
      /\ Returned
      /\ result = events[i].res

C1_Witness ==
  /\ pc = "after"
  /\ events /= <<>>
  /\ IsCall(events[Len(events)], 1)
  /\ events[Len(events)].res /= None
  /\ result.source = "primary"

\* C2: when get_stock_price has returned None for a symbol, the polling
\* loop has logged the failure and its next step goes on to the next symbol
\* or the next cycle.
C2_LoopSurvivesFailure ==
  [][(pc = "alert" /\ result = None) =>
       (lastLog = "fail" /\ pc' \in {"symbol", "loop"})]_vars

\* C3, as stated: a call of get_cached_stock_data made less than the TTL
\* after an entry was stored for its market returns that entry's snapshot
\* and makes no bulk download.
C3_HitWithinTTL_AsStated ==
  (lastGet.n > 0 /\ lastGet.prev.at >= 0
     /\ lastGet.at < lastGet.prev.at + TTLTicks) =>
    (lastGet.hit /\ lastGet.fetched = 0 /\ lastGet.ver = lastGet.prev.ver)

\* C3, amended: a call of get_cached_stock_data made less than the TTL
\* after an entry was stored for its market, with no stock_cache.clear()
\* in between, returns that entry's snapshot and makes no bulk download.
C3_HitWithinTTL ==
  (lastGet.n > 0 /\ lastGet.prev.at >= 0 /\ ~lastGet.prev.cleared
     /\ lastGet.at < lastGet.prev.at + TTLTicks) =>
    (lastGet.hit /\ lastGet.fetched = 0 /\ lastGet.ver = lastGet.prev.ver)

C3_Witness ==
  /\ lastGet.n > 0
  /\ lastGet.prev.at >= 0
  /\ ~lastGet.prev.cleared
  /\ lastGet.at < lastGet.prev.at + TTLTicks
  /\ lastGet.at > lastGet.prev.at
  /\ lastGet.hit

\* a call made once the entry stored for its market is at least TTL old
ExpiredCall ==
  lastGet.n > 0 /\ lastGet.prev.at >= 0
    /\ lastGet.at >= lastGet.prev.at + TTLTicks

\* that call makes one bulk download and leaves the cache with the new
\* snapshot, expiring TTL after the time it was stored
Refetched ==
  /\ ~lastGet.hit
  /\ lastGet.fetched = 1
  /\ lastGet.ver > lastGet.prev.ver
  /\ lastGet.expires = lastGet.done + TTLTicks

\* C4, as stated: a call made after the entry of its market has outlived
\* the TTL makes exactly one bulk download and replaces the entry by the
\* new snapshot with the new time; calls less than the TTL after that new
\* store are hits.
C4_ExpiryRefetch_AsStated ==
  /\ ExpiredCall => Refetched
  /\ (lastGet.n > 0 /\ lastGet.prev.refreshed
        /\ lastGet.at < lastGet.prev.at + TTLTicks) =>
       (lastGet.hit /\ lastGet.fetched = 0 /\ lastGet.ver = lastGet.prev.ver)

\* C4, amended: the same, the calls after the new store being hits as long
\* as stock_cache.clear() has not run since that store.
C4_ExpiryRefetch ==
  /\ ExpiredCall => Refetched
  /\ (lastGet.n > 0 /\ lastGet.prev.refreshed /\ ~lastGet.prev.cleared
        /\ lastGet.at < lastGet.prev.at + TTLTicks) =>
       (lastGet.hit /\ lastGet.fetched = 0 /\ lastGet.ver = lastGet.prev.ver)

\* an entry expired in place (no clear) and was fetched again
C4_Witness ==
  /\ ExpiredCall
  /\ ~lastGet.prev.cleared
  /\ Refetched

\* C5: once all threads that called get_cached_stock_data for the same
\* market have returned, the cache holds at most one entry for the market
\* and its size counter agrees with its contents, every thread got the
\* frame of one of the downloads, and there were no more downloads than
\* threads that missed.
C5_ConcurrentMissKeepsCacheSound ==
  (pc = "threads" /\ \A t \in Threads : tpc[t] = "done") =>
    /\ Cardinality({i \in DOMAIN cache.links : cache.links[i].key = ConcMarket}) <= 1
    /\ cache.currsize = Cardinality({k \in MarketType : cache.data[k] /= NoVal})
    /\ \A t \in Threads : tret[t] /= NoVal /\ tret[t].ver \in 1..fetchCount
    /\ fetchCount <= Cardinality({t \in Threads : tval[t] /= NoVal})

\* C6: a get_stock_price call makes at most 2 primary and 2 backup calls
\* and sleeps at most 3 seconds in total, every step of it adds to its
\* history, and when every resolver call returned None it returns None
\* after exactly 2 + 2 calls.
C6_BoundedTermination ==
  /\ [](/\ Cardinality(CallsOf(1)) <= 2
        /\ Cardinality(CallsOf(2)) <= 2
        /\ SleptTicks(events) <= 6 * HalfSec
        /\ (Returned /\ events /= <<>>
              /\ \A i \in DOMAIN events : events[i].res = None) =>
             (/\ result = None
              /\ Cardinality(CallsOf(1)) = 2
              /\ Cardinality(CallsOf(2)) = 2))
  /\ [][pc = "resolve" => Len(events') > Len(events)]_vars

C6_Witness ==
  /\ pc = "after"
  /\ result = None
  /\ Cardinality(CallsOf(1)) = 2
  /\ Cardinality(CallsOf(2)) = 2

\* C7: inside a get_stock_price call every delay lies between two
\* consecutive calls of the same resolver and lasts 0.5 s times the attempt
\* number of the call before it; no delay follows the last call.
C7_DelaysOnlyBetweenCalls ==
  \A i \in DOMAIN events :
    events[i].ev = "sleep" =>
      /\ i > 1
      /\ events[i - 1].ev = "call"
      /\ events[i].ticks = HalfSec * events[i - 1].attempt
      /\ i < Len(events) => IsCall(events[i + 1], events[i - 1].who)
      /\ i = Len(events) => pc = "resolve"

\* C8: a resolver call that missed because its upstream request failed is
\* followed, while the resolver has calls left, by a call of the same
\* resolver that makes the upstream request again.
C8_NetworkFailureRetried ==
  \A i \in DOMAIN events :
    (events[i].ev = "call" /\ events[i].netfail /\ events[i].attempt < 2
       /\ i + 2 <= Len(events)) =>
      /\ IsCall(events[i + 2], events[i].who)
      /\ events[i + 2].req

\* the answer is an object with rc = 0 and a data object
WellFormed(resp) ==
  /\ resp.kind = "json"
  /\ resp.body.dict
  /\ resp.body.has_rc
  /\ resp.body.rc = 0
  /\ resp.body.data.shape = "obj"

\* C9: an answer whose data object lacks one of the fields of the schema
\* (name f58, price f43, change f170, volume f47) makes the backup resolver
\* return None.
C9_MissingFieldIsMiss ==
  (pc = "backup_done" /\ WellFormed(bkResp)
     /\ \/ ~bkResp.body.data.item.f58.has
        \/ ~bkResp.body.data.item.f43.has
        \/ ~bkResp.body.data.item.f170.has
        \/ ~bkResp.body.data.item.f47.has) =>
    bkOut = None

\* C10: the backup resolver returns None or a quote, never an exception;
\* None for a request error, a bad status, a body that is not a JSON
\* object, rc missing or not 0, data missing or empty; a quote only when
\* rc is 0 and a data object is present.
C10_BackupNeverRaises ==
  pc = "backup_done" =>
    /\ bkOut /= Raise
    /\ bkOut = None \/ bkOut.kind = "quote"
    /\ (\/ bkResp.kind /= "json"
        \/ ~bkResp.body.dict
        \/ ~bkResp.body.has_rc
        \/ bkResp.body.rc /= 0
        \/ bkResp.body.data.shape \in {"absent", "empty"}) => bkOut = None
    /\ bkOut /= None => WellFormed(bkResp)

C10_Witness ==
  /\ pc = "backup_done"
  /\ bkResp.kind = "json"
  /\ bkResp.body.dict
  /\ bkResp.body.has_rc
  /\ bkResp.body.rc = 1
  /\ bkResp.body.data.shape = "obj"
  /\ bkOut = None

\* the answer carries whole numbers under f43 and f170 and a numeric f47
\* (values are in thousandths: 3250000 is 3250, 85000 is 85)
WholeFields(resp) ==
  /\ WellFormed(resp)
  /\ resp.body.data.item.f43.has /\ resp.body.data.item.f43.num
  /\ resp.body.data.item.f43.val > 0
  /\ resp.body.data.item.f43.val % 1000 = 0
  /\ resp.body.data.item.f170.has /\ resp.body.data.item.f170.num
  /\ resp.body.data.item.f170.val > 0
  /\ resp.body.data.item.f170.val % 1000 = 0
  /\ resp.body.data.item.f47.has /\ resp.body.data.item.f47.num

\* C11 as stated: for an answer with rc = 0 whose data object holds whole
\* numbers under f43 and f170, the quote has source backup and its price
\* and change percent are the fields divided by a scale factor, not the raw
\* integers f43 and f170.
C11_BackupScaling_AsStated ==
  (pc = "backup_done" /\ WholeFields(bkResp)) =>
    /\ bkOut /= None
    /\ bkOut.source = "backup"
    /\ bkOut.price /= bkResp.body.data.item.f43.val
    /\ bkOut.pct /= bkResp.body.data.item.f170.val

\* C11: for an answer with rc = 0 whose data object holds numbers under
\* f43, f170 and f47, the quote has source backup and its price and change
\* percent are f43 and f170 as received, to two decimals, with no division:
\* whole numbers come back as they are.
C11_BackupScaling ==
  (pc = "backup_done" /\ WellFormed(bkResp)
     /\ bkResp.body.data.item.f43.has /\ bkResp.body.data.item.f43.num
     /\ bkResp.body.data.item.f170.has /\ bkResp.body.data.item.f170.num
     /\ bkResp.body.data.item.f47.has /\ bkResp.body.data.item.f47.num) =>
    /\ bkOut /= None
    /\ bkOut.source = "backup"
    /\ bkOut.price - bkResp.body.data.item.f43.val \in -5 .. 5
    /\ bkOut.pct - bkResp.body.data.item.f170.val \in -5 .. 5
    /\ bkOut.price % 10 = 0
    /\ bkOut.pct % 10 = 0

C11_Witness ==
  /\ pc = "backup_done"
  /\ WholeFields(bkResp)
  /\ bkOut /= None
  /\ bkOut.source = "backup"
  /\ bkOut.price = 3250000
  /\ bkOut.pct = 85000

\* the code and the market the symbol being resolved normalizes to
CurCode == format_stock_code(test_cases[idx])[1]
CurMarket == format_stock_code(test_cases[idx])[2]

\* the rows with the normalized code in the snapshot cached for its market
RowsInCache ==
  IF cache.data[CurMarket] = NoVal THEN {}
  ELSE {i \in 1..Len(cache.data[CurMarket].rows) :
          cache.data[CurMarket].rows[i].code = CurCode}

\* C12: when get_stock_price has returned and the snapshot cached for the
\* normalized market holds a row with the normalized code, the result is
\* the quote of that row (code, name, price, change percent, volume), its
\* market is the normalized market and its source is primary.
C12_PrimaryEndToEnd ==
  (pc = "after" /\ RowsInCache /= {}) =>
    \E i \in RowsInCache :
      LET row == cache.data[CurMarket].rows[i]
      IN  result = [kind |-> "quote", code |-> row.code, name |-> row.name,
                    price |-> Round2(row.price), pct |-> Round2(row.pct),
                    vol |-> row.vol, market |-> CurMarket,
                    source |-> "primary"]

\* the first row of df, in the table's order, whose code has code as a
\* substring; 0 when there is none
FirstWithSubstring(df, code) ==
  LET hits == {i \in 1..Len(df) : Contains(df[i].code, code)}
  IN  IF hits = {} THEN 0 ELSE CHOOSE i \in hits : \A j \in hits : i <= j

\* C13: get_stock_realtime_price returns the quote of the first row of the
\* market's snapshot whose code has the normalized code as a substring; it
\* returns None, and raises nothing, when no row has it and when the bulk
\* download failed.
C13_PrimaryMiss ==
  pc = "primary_done" =>
    LET fm == format_stock_code(prCode)
        df == FetchFrame(fm[2], prUp)
        first == FirstWithSubstring(df, fm[1])
    IN  /\ prOut /= Raise
        /\ ~prUp.ok => prOut = None
        /\ first = 0 => prOut = None
        /\ first /= 0 => prOut = format_a_share_data(df[first])

\* the link of key k in cache c, NoVal when there is none
LinkOf(c, k) == IF LinkIndex(c, k) = 0 THEN NoVal ELSE c.links[LinkIndex(c, k)]

\* C14 as stated: when get_stock_price has returned None, stock_cache (its
\* entries, their contents and their expiry) is exactly as it was when the
\* call was entered.
C14_FailureLeavesCache_AsStated ==
  (pc = "after" /\ result = None) => cache = cacheAtEntry

\* C14: when get_stock_price has returned None, the only entry of
\* stock_cache the call may have added or replaced is the one of the
\* normalized market of its code; the entry of every other market is as it
\* was when the call was entered, or was expired and has been dropped.
C14_FailureLeavesCache ==
  (pc = "after" /\ result = None) =>
    \A m \in MarketType \ {CurMarket} :
      \/ /\ cache.data[m] = cacheAtEntry.data[m]
         /\ LinkOf(cache, m) = LinkOf(cacheAtEntry, m)
      \/ /\ cache.data[m] = NoVal
         /\ LinkOf(cache, m) = NoVal
         /\ LinkOf(cacheAtEntry, m) /= NoVal
         /\ LinkOf(cacheAtEntry, m).expires <= now

\* a failed call that stored a snapshot while another market's entry was
\* in the cache
C14_Witness ==
  /\ pc = "after"
  /\ result = None
  /\ cache /= cacheAtEntry
  /\ \E m \in MarketType \ {CurMarket} : cacheAtEntry.data[m] /= NoVal

Digits == {"0", "1", "2", "3", "4", "5", "6", "7", "8", "9"}

\* six digits, the first of them one of 0, 3, 5, 6, 9
RecognizedSixDigits(s) ==
  /\ Len(s) = 6
  /\ \A i \in 1..6 : s[i] \in Digits
  /\ s[1] \in {"0", "3", "5", "6", "9"}

\* C15: for a string of six digits whose first digit is 0, 3, 5, 6 or 9,
\* format_stock_code applied to the code of its own result gives the same
\* (code, market) pair again.
C15_NormalizerIdempotent ==
  (pc = "norm_twice" /\ RecognizedSixDigits(nmIn)) => nmAgain = nmOut

C15_Witness ==
  /\ pc = "norm_twice"
  /\ nmIn = <<"3","0","0","7","5","0">>
  /\ nmOut = <<nmIn, A_SHENZHEN>>
  /\ nmAgain = nmOut

\* C16: an input that starts with one of the explicit symbols of the table
\* gets that symbol's market, "00700" Hong Kong and "AAPL" the US, also
\* when a one-digit prefix of the table starts the input as well.
C16_PrefixPrecedence ==
  pc \in {"norm_once", "norm_twice"} =>
    /\ StartsWith(nmIn, <<"0","0","7","0","0">>) => nmOut[2] = HK
    /\ StartsWith(nmIn, <<"A","A","P","L">>) => nmOut[2] = US

\* the number of leading characters of s that belong to chars
LeadingIn(s, chars) ==
  CHOOSE k \in 0..Len(s) :
    /\ \A j \in 1..k : s[j] \in chars
    /\ k = Len(s) \/ s[k + 1] \notin chars

NoPrefixOfTable(s) ==
  \A i \in 1..Len(STOCK_PREFIX_MAP) : ~StartsWith(s, STOCK_PREFIX_MAP[i][1])

\* C17 as stated: for an input that starts with no prefix of the table and
\* is not six characters long, the result is the input itself with the
\* Shanghai market.
C17_Fallback_AsStated ==
  (pc \in {"norm_once", "norm_twice"} /\ NoPrefixOfTable(nmIn)
     /\ Len(nmIn) /= 6) =>
    nmOut = <<nmIn, A_SHANGHAI>>

\* C17: format_stock_code gives a (code, market) pair for every string; the
\* code is the input in upper case without its leading ".", "S", "H" and
\* "Z" characters, and when that code starts with no prefix of the table
\* and is not six characters long the market is Shanghai.
C17_Fallback ==
  pc \in {"norm_once", "norm_twice"} =>
    LET up == [i \in 1..Len(nmIn) |-> UpperChar(nmIn[i])]
        code == SubSeq(up, LeadingIn(up, {".", "S", "H", "Z"}) + 1, Len(up))
    IN  /\ nmOut[2] \in MarketType
        /\ nmOut[1] = code
        /\ (NoPrefixOfTable(code) /\ Len(code) /= 6) => nmOut[2] = A_SHANGHAI

C17_Witness ==
  /\ pc = "norm_once"
  /\ nmIn = <<"m","s","f","t">>
  /\ nmOut = << <<"M","S","F","T">>, A_SHANGHAI >>

\* C18: no network call of a get_stock_price call goes on for ever: the
\* bulk download and the backup request are both bounded by a timeout, so
\* the program is never held in a call that a silent source leaves
\* unanswered.
C18_NoIndefiniteBlock == pc /= "blocked"

\* get_stock_price has returned and the loop has not yet taken the next symbol
ResolveEnded == pc \in {"after", "alert"}

\* C19: a get_stock_price call starts with the primary resolver; it calls
\* the primary resolver at most twice and the backup resolver at most
\* twice; the backup resolver is called only after exactly two primary
\* calls that all returned None, and no primary call comes after a backup
\* call; the call ends with the quote of its last resolver call, or with
\* None after two backup calls, and once it has ended its history and its
\* result stay as they are.
C19_StateMachine ==
  /\ [](/\ events /= <<>> => IsCall(events[1], 1)
        /\ Cardinality(CallsOf(1)) <= 2
        /\ Cardinality(CallsOf(2)) <= 2
        /\ CallsOf(2) /= {} =>
             /\ Cardinality(CallsOf(1)) = 2
             /\ \A j \in CallsOf(1) :
                  /\ events[j].res = None
                  /\ \A i \in CallsOf(2) : j < i
        /\ (pc = "resolve" /\ strategies[strategy] = 1) => CallsOf(2) = {}
        /\ pc \in {"after", "alert"} =>
             \/ /\ result /= None
                /\ events[Len(events)].ev = "call"
                /\ events[Len(events)].res = result
             \/ /\ result = None
                /\ Cardinality(CallsOf(2)) = 2)
  /\ [][ResolveEnded => <<events, result>>' = <<events, result>>]_vars

C19_Witness ==
  /\ pc = "after"
  /\ result /= None
  /\ result.source = "backup"
  /\ Cardinality(CallsOf(1)) = 2
  /\ Cardinality(CallsOf(2)) = 2

RECURSIVE NormCount(_)
NormCount(es) ==
  IF es = <<>> THEN 0 ELSE Head(es).norms + NormCount(Tail(es))

Openings(days) ==
  {(d * 86400 + o) * TicksPerSec : d \in {x \in days : x % 7 < 5},
                                   o \in {9 * 3600 + 30 * 60, 13 * 3600}}

\* the first opening after instant t
NextOpen(t) ==
  LET day == Secs(t) \div 86400
      later == {o \in Openings(day .. day + 3) : o > t}
  IN  CHOOSE o \in later : \A q \in later : o <= q

\* C21: outside trading hours every sleep of the polling loop lasts at
\* least 60 seconds and ends before the next session has been open for 60
\* seconds, so no sleep passes over a session or a later part of one; the
\* instant at which is_trading_time() is true again is less than 60 seconds
\* after the opening of that session, and the loop does reach it.
C21_NeverOversleeps ==
  /\ [][~is_trading_time(now) => (now' >= now + 60 * TicksPerSec /\ now' < NextOpen(now) + 60 * TicksPerSec /\ (is_trading_time(now') => now' >= NextOpen(now)))]_vars
  /\ <>is_trading_time(now)

\* the loop slept through the lunch break and woke 29 seconds into the
\* afternoon session
C21_Witness ==
  /\ pc = "loop"
  /\ is_trading_time(now)
  /\ tm_wday(now) = 4
  /\ tm_hour(now) = 13
  /\ tm_min(now) = 0
  /\ tm_sec(now) = 29

\* the shares held before row k of the portfolio was written
SharesBefore(k) == IF k = 1 THEN 0 ELSE portfolio[k - 1].shares

\* C22: after every step of backtest the cash and the shares held are not
\* negative; the shares held change only by a purchase, on signal +1 with
\* nothing held, or by the sale of all of them, on signal -1 with shares
\* held, so purchases and sales alternate and a purchase comes first; the
\* total of every row is its cash plus its shares times its close.
C22_BacktestPosition ==
  /\ capital >= 0
  /\ position >= 0
  /\ \A k \in 1..Len(portfolio) :
       /\ portfolio[k].cash >= 0
       /\ portfolio[k].shares >= 0
       /\ portfolio[k].total =
            portfolio[k].cash + portfolio[k].shares * portfolio[k].close * Thousand
       /\ portfolio[k].shares /= SharesBefore(k) =>
            \/ /\ SharesBefore(k) = 0
               /\ portfolio[k].signal = 1
               /\ portfolio[k].shares > 0
            \/ /\ SharesBefore(k) > 0
               /\ portfolio[k].signal = -1
               /\ portfolio[k].shares = 0
  /\ portfolio /= <<>> =>
       /\ portfolio[Len(portfolio)].cash = capital
       /\ portfolio[Len(portfolio)].shares = position

\* a purchase, the sale of the shares and a second purchase
C22_Witness ==
  /\ pc = "backtest"
  /\ Len(portfolio) >= 3
  /\ portfolio[1].shares > 0
  /\ portfolio[2].shares = 0
  /\ portfolio[2].cash > portfolio[1].cash
  /\ portfolio[3].shares > 0
====
